---- MODULE Spec2Model ----
(***************************************************************************)
(* Model of labwc's drawing-tablet input core (src/unnamed/part_000):      *)
(* tool classification, active-area cropping, rotation, the four event     *)
(* handlers, and the creation/teardown of the per-device record.           *)
(*                                                                         *)
(* Coordinates are C doubles in the source.  They are modelled as exact    *)
(* fractions <<n, d>> in lowest terms with d > 0; a zero denominator       *)
(* stands for the IEEE specials a division by zero produces                *)
(* (<<1,0>> = +inf, <<-1,0>> = -inf, <<0,0>> = NaN).                        *)
(***************************************************************************)
EXTENDS Integers, Sequences, FiniteSets, TLC

VARIABLES
    device,     \* [Devices -> "new" | "present" | "gone"]: the wlr_input_device
    width_mm,   \* [Devices -> Nat]: tablet->tablet->width_mm
    height_mm,  \* [Devices -> Nat]: tablet->tablet->height_mm
    alloc,      \* [Devices -> "none" | "live" | "freed"]: struct drawing_tablet
    seat,       \* [Devices -> Seats \cup {0}]: tablet->seat
    x,          \* [Devices -> fraction]: tablet->x
    y,          \* [Devices -> fraction]: tablet->y
    handlers,   \* [Devices -> SUBSET Signals]: listeners linked into a signal
    removed,    \* [Devices -> [Signals -> Nat]]: wl_list_remove calls per listener
    frees,      \* [Devices -> Nat]: free(tablet) calls
    uaf,        \* TRUE once a record was touched after free(tablet)
    rc,         \* [box, rotation]: rc.tablet.box, rc.tablet.rotation
    button_map, \* [RawButtons -> mapped code]: what tablet_get_mapped_button reads
    pc,         \* event loop: "idle" | "dispatch" (event in flight) | "done"
    ev,         \* the event in flight, or the operation that just ran
    emitted,    \* the calls the running handler made into the cursor emulation
    tip_pressed,\* [Devices -> code]: button the sink held pressed for the pen tip
                \* when the running handler was entered
    reloaded,   \* TRUE when rc changed after the last axis event was handled
    geo,        \* the coordinate pair a geometry function is applied to, with
                \* its inputs and what became of it (SpecGeom)
    tracked     \* [Devices -> BOOLEAN]: a proximity or axis event was delivered
                \* for the device (history, read by no handler)

vars == <<device, width_mm, height_mm, alloc, seat, x, y, handlers, removed,
          frees, uaf, rc, button_map, pc, ev, emitted, tip_pressed, reloaded,
          geo, tracked>>

----------------------------------------------------------------------------
(* Bounds *)

Grid == 2
MaxMM == 2
MaxSeat == 2
MaxTime == 2
MaxButton == 1
MaxTurns == 4

\* two tablets, so that one can outlive the other
Devices == {1, 2}
Seats == 1..MaxSeat
Times == 1..MaxTime

----------------------------------------------------------------------------
(* Fractions *)

RECURSIVE GCD(_, _)
GCD(a, b) == IF b = 0 THEN a ELSE GCD(b, a % b)

Abs(n) == IF n < 0 THEN -n ELSE n

Sgn(n) == IF n > 0 THEN 1 ELSE IF n < 0 THEN -1 ELSE 0

Norm(n, d) ==
    IF d = 0 THEN <<Sgn(n), 0>>
    ELSE LET g == GCD(Abs(n), Abs(d))
             s == IF d < 0 THEN -1 ELSE 1
         IN  <<(s * n) \div g, (s * d) \div g>>

Num(v) == <<v, 1>>

Frac(n, d) == Norm(n, d)

IsNaN(a) == a[2] = 0 /\ a[1] = 0

IsInf(a) == a[2] = 0 /\ a[1] # 0

Neg(a) == <<-a[1], a[2]>>

RSub(a, b) ==
    IF IsNaN(a) \/ IsNaN(b) THEN <<0, 0>>
    ELSE IF IsInf(a) /\ IsInf(b) THEN (IF a[1] = b[1] THEN <<0, 0>> ELSE a)
    ELSE IF IsInf(a) THEN a
    ELSE IF IsInf(b) THEN Neg(b)
    ELSE Norm(a[1] * b[2] - b[1] * a[2], a[2] * b[2])

RMul(a, b) == Norm(a[1] * b[1], a[2] * b[2])

RDiv(a, b) ==
    IF IsNaN(a) \/ IsNaN(b) THEN <<0, 0>>
    ELSE Norm(a[1] * b[2], a[2] * b[1])

RawCoords == {Frac(k, Grid) : k \in 0..Grid}

----------------------------------------------------------------------------
(* Tool types, signals, buttons, configuration *)

KnownToolTypes ==
    {"PEN", "ERASER", "BRUSH", "PENCIL", "AIRBRUSH", "MOUSE", "LENS", "TOTEM"}

UnknownToolTypes == {"UNKNOWN"}

ToolTypes == KnownToolTypes \cup UnknownToolTypes

Signals == {"axis", "proximity", "tip", "button", "destroy"}

Axes == {"X", "Y", "PRESSURE"}

RawButtons == {"BTN_TOOL_PEN", "BTN_STYLUS"}

MappedCodes == 0..MaxButton

ButtonMaps == [RawButtons -> MappedCodes]

Rotations == {"LAB_ROTATE_NONE", "LAB_ROTATE_90", "LAB_ROTATE_180", "LAB_ROTATE_270"}

Box(bx, by, bw, bh) == [x |-> bx, y |-> by, width |-> bw, height |-> bh]

\* active areas of the axis specification: any x range, two y offsets
Boxes == {Box(bx, by, bw, 0) : bx \in 0..MaxMM, by \in 0..1, bw \in 0..MaxMM}

PhysSizes == {<<MaxMM, MaxMM>>}

----------------------------------------------------------------------------
(* Pure functions *)

\* variant: the lens case label is missing, so only the mouse is refused
tool_supports_absolute_motion_mouse_only(type) ==
    CASE type = "MOUSE" -> FALSE
      [] OTHER -> TRUE

tool_supports_absolute_motion(type) ==
    CASE type = "MOUSE" -> FALSE
      [] type = "LENS" -> FALSE
      [] OTHER -> TRUE

\* box after the zero width/height substitution of lines 35-40
EffectiveBox(tablet_width, tablet_height, box) ==
    [box EXCEPT
        !.width = IF box.width = 0 THEN tablet_width - box.x ELSE box.width,
        !.height = IF box.height = 0 THEN tablet_height - box.y ELSE box.height]

\* variant: only the all-zero area is a no-op, the physical size is not tested
AreaIsNoop_sentinel_only(tablet_width, tablet_height, box) ==
    box.x = 0 /\ box.y = 0 /\ box.width = 0 /\ box.height = 0

AreaIsNoop(tablet_width, tablet_height, box) ==
    \/ (box.x = 0 /\ box.y = 0 /\ box.width = 0 /\ box.height = 0)
    \/ tablet_width = 0
    \/ tablet_height = 0

\* variant: the area's leading-edge offset is not subtracted before scaling
adjust_for_tablet_area_no_offset(tablet_width, tablet_height, box, px, py) ==
    IF AreaIsNoop(tablet_width, tablet_height, box) THEN <<px, py>>
    ELSE LET b == EffectiveBox(tablet_width, tablet_height, box)
             nx == IF b.x + b.width <= tablet_width
                   THEN RDiv(RMul(px, Num(tablet_width)), Num(b.width))
                   ELSE px
             ny == IF b.y + b.height <= tablet_height
                   THEN RDiv(RMul(py, Num(tablet_height)), Num(b.height))
                   ELSE py
         IN  <<nx, ny>>

\* variant: an area that overflows on either axis disables the crop on both
adjust_for_tablet_area_all_or_nothing(tablet_width, tablet_height, box, px, py) ==
    IF AreaIsNoop(tablet_width, tablet_height, box) THEN <<px, py>>
    ELSE LET b == EffectiveBox(tablet_width, tablet_height, box)
         IN  IF b.x + b.width <= tablet_width /\ b.y + b.height <= tablet_height
             THEN <<RDiv(RMul(RSub(px, Frac(b.x, tablet_width)), Num(tablet_width)),
                         Num(b.width)),
                    RDiv(RMul(RSub(py, Frac(b.y, tablet_height)), Num(tablet_height)),
                         Num(b.height))>>
             ELSE <<px, py>>

adjust_for_tablet_area(tablet_width, tablet_height, box, px, py) ==
    IF AreaIsNoop(tablet_width, tablet_height, box) THEN <<px, py>>
    ELSE LET b == EffectiveBox(tablet_width, tablet_height, box)
             nx == IF b.x + b.width <= tablet_width
                   THEN LET width_offset == Frac(b.x, tablet_width)
                        IN  RDiv(RMul(RSub(px, width_offset), Num(tablet_width)),
                                 Num(b.width))
                   ELSE px
             ny == IF b.y + b.height <= tablet_height
                   THEN LET height_offset == Frac(b.y, tablet_height)
                        IN  RDiv(RMul(RSub(py, height_offset), Num(tablet_height)),
                                 Num(b.height))
                   ELSE py
         IN  <<nx, ny>>

\* variant: the 90 degree case without the temporary, Y read after X is written
adjust_for_rotation_no_tmp(rotation, px, py) ==
    CASE rotation = "LAB_ROTATE_NONE" -> <<px, py>>
      [] rotation = "LAB_ROTATE_90" -> <<RSub(Num(1), py), RSub(Num(1), py)>>
      [] rotation = "LAB_ROTATE_180" -> <<RSub(Num(1), px), RSub(Num(1), py)>>
      [] rotation = "LAB_ROTATE_270" -> <<py, RSub(Num(1), px)>>

adjust_for_rotation(rotation, px, py) ==
    CASE rotation = "LAB_ROTATE_NONE" -> <<px, py>>
      [] rotation = "LAB_ROTATE_90" -> <<RSub(Num(1), py), px>>
      [] rotation = "LAB_ROTATE_180" -> <<RSub(Num(1), px), RSub(Num(1), py)>>
      [] rotation = "LAB_ROTATE_270" -> <<py, RSub(Num(1), px)>>

tablet_get_mapped_button(code) == button_map[code]

----------------------------------------------------------------------------
(* Calls into the cursor emulation, as records *)

NoCoord == Num(0)

cursor_emulate_move_absolute(s, d, px, py, t) ==
    [op |-> "move_absolute", seat |-> s, dev |-> d, x |-> px, y |-> py,
     button |-> 0, state |-> "-", time |-> t]

cursor_emulate_button(s, b, st, t) ==
    [op |-> "button", seat |-> s, dev |-> 0, x |-> NoCoord, y |-> NoCoord,
     button |-> b, state |-> st, time |-> t]

Event(k, d, tool, mask, ex, ey, st, b, t) ==
    [kind |-> k, dev |-> d, tool |-> tool, mask |-> mask, x |-> ex, y |-> ey,
     state |-> st, button |-> b, time |-> t]

NoEvent == Event("none", 0, "-", {}, NoCoord, NoCoord, "-", "-", 0)

Operation(k, d) == Event(k, d, "-", {}, NoCoord, NoCoord, "-", "-", 0)

----------------------------------------------------------------------------
(* Handlers: the effect of each function on the record and the emulation *)

\* variant: a capable tool entering proximity moves the cursor to the stored
\* position
handle_proximity_moves(d, tool, st) ==
    /\ emitted' = IF st = "PROXIMITY_IN" /\ tool_supports_absolute_motion(tool)
                  THEN <<cursor_emulate_move_absolute(seat[d], d, x[d], y[d], 0)>>
                  ELSE <<>>
    /\ UNCHANGED <<x, y, alloc, seat, handlers, removed, frees, uaf>>

handle_proximity(d, tool, st) ==
    /\ emitted' = <<>>
    /\ UNCHANGED <<x, y, alloc, seat, handlers, removed, frees, uaf>>

\* the move a capable axis event makes from the position (nx, ny), with the
\* record updated by store(nx, ny) and the transform applied by pipeline
AxisVariant(d, tool, mask, t, nx, ny, sx, sy, out) ==
    IF ~tool_supports_absolute_motion(tool) \/ mask \cap {"X", "Y"} = {}
    THEN /\ emitted' = <<>>
         /\ UNCHANGED <<x, y, alloc, seat, handlers, removed, frees, uaf>>
    ELSE /\ x' = [x EXCEPT ![d] = sx]
         /\ y' = [y EXCEPT ![d] = sy]
         /\ emitted' = <<cursor_emulate_move_absolute(seat[d], d, out[1], out[2], t)>>
         /\ UNCHANGED <<alloc, seat, handlers, removed, frees, uaf>>

\* variant: both stored coordinates are overwritten whatever the update mask
handle_axis_overwrites_both(d, tool, mask, ex, ey, t) ==
    LET a == adjust_for_tablet_area(width_mm[d], height_mm[d], rc.box, ex, ey)
        r == adjust_for_rotation(rc.rotation, a[1], a[2])
    IN  AxisVariant(d, tool, mask, t, ex, ey, ex, ey, r)

\* variant: the tool's capability is not checked
handle_axis_any_tool(d, tool, mask, ex, ey, t) ==
    LET nx == IF "X" \in mask THEN ex ELSE x[d]
        ny == IF "Y" \in mask THEN ey ELSE y[d]
        a == adjust_for_tablet_area(width_mm[d], height_mm[d], rc.box, nx, ny)
        r == adjust_for_rotation(rc.rotation, a[1], a[2])
    IN  AxisVariant(d, "PEN", mask, t, nx, ny, nx, ny, r)

\* variant: the transformed position is written back to the record
handle_axis_stores_output(d, tool, mask, ex, ey, t) ==
    LET nx == IF "X" \in mask THEN ex ELSE x[d]
        ny == IF "Y" \in mask THEN ey ELSE y[d]
        a == adjust_for_tablet_area(width_mm[d], height_mm[d], rc.box, nx, ny)
        r == adjust_for_rotation(rc.rotation, a[1], a[2])
    IN  AxisVariant(d, tool, mask, t, nx, ny, r[1], r[2], r)

\* variant: rotation is applied before the area cropping
handle_axis_rotates_first(d, tool, mask, ex, ey, t) ==
    LET nx == IF "X" \in mask THEN ex ELSE x[d]
        ny == IF "Y" \in mask THEN ey ELSE y[d]
        r == adjust_for_rotation(rc.rotation, nx, ny)
        a == adjust_for_tablet_area(width_mm[d], height_mm[d], rc.box, r[1], r[2])
    IN  AxisVariant(d, tool, mask, t, nx, ny, nx, ny, a)

\* variant: the move is made outside the test of the update mask
handle_axis_moves_on_any_axis(d, tool, mask, ex, ey, t) ==
    LET nx == IF "X" \in mask THEN ex ELSE x[d]
        ny == IF "Y" \in mask THEN ey ELSE y[d]
        a == adjust_for_tablet_area(width_mm[d], height_mm[d], rc.box, nx, ny)
        r == adjust_for_rotation(rc.rotation, a[1], a[2])
    IN  AxisVariant(d, tool, {"X", "Y"}, t, nx, ny, nx, ny, r)

\* variant: the position is kept in one place shared by all devices instead of
\* in the record of the device that reported it
handle_axis_shared_position(d, tool, mask, ex, ey, t) ==
    IF ~tool_supports_absolute_motion(tool) \/ mask \cap {"X", "Y"} = {}
    THEN /\ emitted' = <<>>
         /\ UNCHANGED <<x, y, alloc, seat, handlers, removed, frees, uaf>>
    ELSE LET nx == IF "X" \in mask THEN ex ELSE x[d]
             ny == IF "Y" \in mask THEN ey ELSE y[d]
             a == adjust_for_tablet_area(width_mm[d], height_mm[d], rc.box, nx, ny)
             r == adjust_for_rotation(rc.rotation, a[1], a[2])
         IN  /\ x' = [o \in Devices |-> nx]
             /\ y' = [o \in Devices |-> ny]
             /\ emitted' = <<cursor_emulate_move_absolute(seat[d], d, r[1], r[2], t)>>
             /\ UNCHANGED <<alloc, seat, handlers, removed, frees, uaf>>

handle_axis(d, tool, mask, ex, ey, t) ==
    IF ~tool_supports_absolute_motion(tool)
    THEN /\ emitted' = <<>>
         /\ UNCHANGED <<x, y, alloc, seat, handlers, removed, frees, uaf>>
    ELSE IF mask \cap {"X", "Y"} # {}
    THEN LET nx == IF "X" \in mask THEN ex ELSE x[d]
             ny == IF "Y" \in mask THEN ey ELSE y[d]
             a == adjust_for_tablet_area(width_mm[d], height_mm[d], rc.box, nx, ny)
             r == adjust_for_rotation(rc.rotation, a[1], a[2])
         IN  /\ x' = [x EXCEPT ![d] = nx]
             /\ y' = [y EXCEPT ![d] = ny]
             /\ emitted' = <<cursor_emulate_move_absolute(seat[d], d, r[1], r[2], t)>>
             /\ UNCHANGED <<alloc, seat, handlers, removed, frees, uaf>>
    ELSE /\ emitted' = <<>>
         /\ UNCHANGED <<x, y, alloc, seat, handlers, removed, frees, uaf>>

\* variant: the tip state is not translated, every tip event presses
handle_tip_press_only(d, st, t) ==
    LET button == tablet_get_mapped_button("BTN_TOOL_PEN")
    IN  /\ emitted' = IF button = 0 THEN <<>>
                      ELSE <<cursor_emulate_button(seat[d], button, "PRESSED", t)>>
        /\ UNCHANGED <<x, y, alloc, seat, handlers, removed, frees, uaf>>

\* variant: the tip is forwarded only for a tool with absolute motion, as
\* handle_axis does for motion
handle_tip_capable_only(d, st, t) ==
    LET button == tablet_get_mapped_button("BTN_TOOL_PEN")
    IN  /\ emitted' = IF button = 0 \/ ~tool_supports_absolute_motion(ev.tool)
                      THEN <<>>
                      ELSE <<cursor_emulate_button(seat[d], button,
                                IF st = "TIP_DOWN" THEN "PRESSED" ELSE "RELEASED", t)>>
        /\ UNCHANGED <<x, y, alloc, seat, handlers, removed, frees, uaf>>

handle_tip(d, st, t) ==
    LET button == tablet_get_mapped_button("BTN_TOOL_PEN")
    IN  /\ emitted' = IF button = 0 THEN <<>>
                      ELSE <<cursor_emulate_button(seat[d], button,
                                IF st = "TIP_DOWN" THEN "PRESSED" ELSE "RELEASED", t)>>
        /\ UNCHANGED <<x, y, alloc, seat, handlers, removed, frees, uaf>>

\* variant: the pen-tip code is looked up instead of the event's button
handle_button_pen_code(d, code, st, t) ==
    LET button == tablet_get_mapped_button("BTN_TOOL_PEN")
    IN  /\ emitted' = IF button = 0 THEN <<>>
                      ELSE <<cursor_emulate_button(seat[d], button, st, t)>>
        /\ UNCHANGED <<x, y, alloc, seat, handlers, removed, frees, uaf>>

handle_button(d, code, st, t) ==
    LET button == tablet_get_mapped_button(code)
    IN  /\ emitted' = IF button = 0 THEN <<>>
                      ELSE <<cursor_emulate_button(seat[d], button, st, t)>>
        /\ UNCHANGED <<x, y, alloc, seat, handlers, removed, frees, uaf>>

\* one statement of handle_destroy applied to the record's state r:
\* wl_list_remove(&tablet->handlers.<op>.link), or free(tablet)
DestroyStep(r, op) ==
    IF op = "free"
    THEN [r EXCEPT !.frees = @ + 1, !.alloc = "freed",
                   !.uaf = r.uaf \/ r.alloc # "live"]
    ELSE [r EXCEPT !.handlers = @ \ {op}, !.removed[op] = @ + 1,
                   !.uaf = r.uaf \/ r.alloc # "live"]

RECURSIVE DestroySteps(_, _)
DestroySteps(r, ops) ==
    IF ops = <<>> THEN r ELSE DestroySteps(DestroyStep(r, Head(ops)), Tail(ops))

RunDestroy(d, ops) ==
    LET r == DestroySteps([handlers |-> handlers[d], removed |-> removed[d],
                           frees |-> frees[d], alloc |-> alloc[d], uaf |-> uaf], ops)
    IN  /\ handlers' = [handlers EXCEPT ![d] = r.handlers]
        /\ removed' = [removed EXCEPT ![d] = r.removed]
        /\ frees' = [frees EXCEPT ![d] = r.frees]
        /\ alloc' = [alloc EXCEPT ![d] = r.alloc]
        /\ uaf' = r.uaf
        /\ emitted' = <<>>
        /\ UNCHANGED <<x, y, seat>>

\* variant: the axis listener is left linked
handle_destroy_keeps_axis(d) ==
    RunDestroy(d, <<"tip", "button", "proximity", "destroy", "free">>)

\* variant: the record is freed before its listeners are unlinked
handle_destroy_frees_first(d) ==
    RunDestroy(d, <<"free", "tip", "button", "proximity", "axis", "destroy">>)

handle_destroy(d) ==
    RunDestroy(d, <<"tip", "button", "proximity", "axis", "destroy", "free">>)

tablet_init(s, d) ==
    /\ alloc' = [alloc EXCEPT ![d] = "live"]
    /\ seat' = [seat EXCEPT ![d] = s]
    /\ x' = [x EXCEPT ![d] = Num(0)]
    /\ y' = [y EXCEPT ![d] = Num(0)]
    /\ handlers' = [handlers EXCEPT ![d] =
                       @ \cup {"axis", "proximity", "tip", "button", "destroy"}]
    /\ emitted' = <<>>
    /\ UNCHANGED <<removed, frees, uaf>>

----------------------------------------------------------------------------
(* Steps.  The event loop is single-threaded: the device source puts one    *)
(* event in flight (Deliver), the signal runs the handler whose listener is *)
(* linked, to completion (Run...), and control returns to the loop.         *)

InitOver(boxes, rotations, maps) ==
    /\ device = [d \in Devices |-> "new"]
    /\ width_mm = [d \in Devices |-> 0]
    /\ height_mm = [d \in Devices |-> 0]
    /\ alloc = [d \in Devices |-> "none"]
    /\ seat = [d \in Devices |-> 0]
    /\ x = [d \in Devices |-> Num(0)]
    /\ y = [d \in Devices |-> Num(0)]
    /\ handlers = [d \in Devices |-> {}]
    /\ removed = [d \in Devices |-> [s \in Signals |-> 0]]
    /\ frees = [d \in Devices |-> 0]
    /\ uaf = FALSE
    /\ rc \in [box : boxes, rotation : rotations]
    /\ button_map \in maps
    /\ pc = "idle"
    /\ ev = NoEvent
    /\ emitted = <<>>
    /\ tip_pressed = [d \in Devices |-> 0]
    /\ reloaded = FALSE
    /\ tracked = [d \in Devices |-> FALSE]

DeviceAdded(s, d, size) ==
    /\ pc = "idle"
    /\ device[d] = "new"
    /\ device' = [device EXCEPT ![d] = "present"]
    /\ width_mm' = [width_mm EXCEPT ![d] = size[1]]
    /\ height_mm' = [height_mm EXCEPT ![d] = size[2]]
    /\ tablet_init(s, d)
    /\ pc' = "done"
    /\ ev' = Operation("added", d)
    /\ UNCHANGED <<rc, button_map, tip_pressed, reloaded, geo, tracked>>

Deliver(e) ==
    /\ pc = "idle"
    /\ device[e.dev] = "present"
    /\ pc' = "dispatch"
    /\ ev' = e
    /\ tracked' = IF e.kind \in {"proximity", "axis"}
                  THEN [tracked EXCEPT ![e.dev] = TRUE]
                  ELSE tracked
    /\ UNCHANGED <<device, width_mm, height_mm, alloc, seat, x, y, handlers,
                   removed, frees, uaf, rc, button_map, emitted, tip_pressed,
                   reloaded, geo>>

NotLinked ==
    /\ emitted' = <<>>
    /\ UNCHANGED <<x, y, alloc, seat, handlers, removed, frees, uaf>>

\* a handler dereferences ev->tablet->data: the record must still be allocated
OnRecord(d, handler) ==
    IF alloc[d] = "live" THEN handler
    ELSE /\ uaf' = TRUE
         /\ emitted' = <<>>
         /\ UNCHANGED <<x, y, alloc, seat, handlers, removed, frees>>

RunProximity ==
    /\ pc = "dispatch"
    /\ ev.kind = "proximity"
    /\ IF "proximity" \in handlers[ev.dev]
       THEN OnRecord(ev.dev, handle_proximity(ev.dev, ev.tool, ev.state))
       ELSE NotLinked
    /\ pc' = "done"
    /\ UNCHANGED <<device, width_mm, height_mm, rc, button_map, ev, tip_pressed,
                   reloaded, geo, tracked>>

RunAxis ==
    /\ pc = "dispatch"
    /\ ev.kind = "axis"
    /\ IF "axis" \in handlers[ev.dev]
       THEN OnRecord(ev.dev, handle_axis(ev.dev, ev.tool, ev.mask, ev.x, ev.y, ev.time))
       ELSE NotLinked
    /\ pc' = "done"
    /\ UNCHANGED <<device, width_mm, height_mm, rc, button_map, ev, tip_pressed,
                   reloaded, geo, tracked>>

\* what the sink holds pressed for the tip of device d after the calls cs
TipAfter(d, cs) ==
    IF cs = <<>> THEN tip_pressed[d]
    ELSE IF cs[Len(cs)].state = "PRESSED" THEN cs[Len(cs)].button ELSE 0

RunTip ==
    /\ pc = "dispatch"
    /\ ev.kind = "tip"
    /\ IF "tip" \in handlers[ev.dev]
       THEN OnRecord(ev.dev, handle_tip(ev.dev, ev.state, ev.time))
       ELSE NotLinked
    /\ pc' = "done"
    /\ UNCHANGED <<device, width_mm, height_mm, rc, button_map, ev, tip_pressed,
                   reloaded, geo, tracked>>

RunButton ==
    /\ pc = "dispatch"
    /\ ev.kind = "button"
    /\ IF "button" \in handlers[ev.dev]
       THEN OnRecord(ev.dev, handle_button(ev.dev, ev.button, ev.state, ev.time))
       ELSE NotLinked
    /\ pc' = "done"
    /\ UNCHANGED <<device, width_mm, height_mm, rc, button_map, ev, tip_pressed,
                   reloaded, geo, tracked>>

Destroy(d) ==
    /\ pc = "idle"
    /\ device[d] = "present"
    /\ device' = [device EXCEPT ![d] = "gone"]
    /\ IF "destroy" \in handlers[d] THEN handle_destroy(d) ELSE NotLinked
    /\ pc' = "done"
    /\ ev' = Operation("destroy", d)
    /\ UNCHANGED <<width_mm, height_mm, rc, button_map, tip_pressed, reloaded, geo,
                   tracked>>

Reconfigure(box, rotation) ==
    /\ pc = "idle"
    /\ rc' = [box |-> box, rotation |-> rotation]
    /\ rc' # rc
    /\ reloaded' = TRUE
    /\ pc' = "done"
    /\ ev' = Operation("reconfigure", 0)
    /\ emitted' = <<>>
    /\ UNCHANGED <<device, width_mm, height_mm, alloc, seat, x, y, handlers,
                   removed, frees, uaf, button_map, tip_pressed, geo, tracked>>

\* the steps the loop can take while idle
DeviceAddedAny(seats, devs, sizes) ==
    pc = "idle" /\ \E s \in seats, d \in devs, size \in sizes : DeviceAdded(s, d, size)

DeliverAny(events) ==
    pc = "idle" /\ \E e \in events : Deliver(e)

DestroyAny(devs) ==
    pc = "idle" /\ \E d \in devs : Destroy(d)

ReconfigureAny(boxes, rotations) ==
    pc = "idle" /\ \E box \in boxes, rotation \in rotations : Reconfigure(box, rotation)

Return ==
    /\ pc = "done"
    /\ pc' = "idle"
    /\ ev' = NoEvent
    /\ emitted' = <<>>
    /\ reloaded' = IF ev.kind = "axis" THEN FALSE ELSE reloaded
    /\ tip_pressed' = IF ev.kind = "tip"
                      THEN [tip_pressed EXCEPT ![ev.dev] = TipAfter(ev.dev, emitted)]
                      ELSE tip_pressed
    /\ UNCHANGED <<device, width_mm, height_mm, alloc, seat, x, y, handlers,
                   removed, frees, uaf, rc, button_map, geo, tracked>>

----------------------------------------------------------------------------
(* Events the device source can deliver *)

ProximityEvents(devs, tools) ==
    {Event("proximity", d, tool, {}, NoCoord, NoCoord, st, "-", 0) :
        d \in devs, tool \in tools, st \in {"PROXIMITY_IN", "PROXIMITY_OUT"}}

AxisEvents(devs, tools, masks, coords, times) ==
    {Event("axis", d, tool, mask, ex, ey, "-", "-", t) :
        d \in devs, tool \in tools, mask \in masks, ex \in coords, ey \in coords,
        t \in times}

TipEvents(devs, tools, times) ==
    {Event("tip", d, tool, {}, NoCoord, NoCoord, st, "-", t) :
        d \in devs, tool \in tools, st \in {"TIP_DOWN", "TIP_UP"}, t \in times}

ButtonEvents(devs, tools, times) ==
    {Event("button", d, tool, {}, NoCoord, NoCoord, st, code, t) :
        d \in devs, tool \in tools, code \in RawButtons,
        st \in {"PRESSED", "RELEASED"}, t \in times}

----------------------------------------------------------------------------
(* The geometry functions on their own: a coordinate pair is cropped once   *)
(* and then rotated, as handle_axis does, and rotated again to compose the  *)
(* rotation with itself.                                                    *)

PhysDims == 0..MaxMM

AllBoxes == {Box(bx, by, bw, bh) : bx \in 0..MaxMM, by \in 0..MaxMM,
                                   bw \in 0..MaxMM, bh \in 0..MaxMM}

\* stage: "none" | "input" | "cropped" | "rotated"; (px, py) the raw pair,
\* (cx, cy) the pair after the crop, (ox, oy) the pair after `turns` rotations
Geo(stage, w, h, box, rotation, px, py) ==
    [stage |-> stage, w |-> w, h |-> h, box |-> box, rotation |-> rotation,
     px |-> px, py |-> py, cx |-> px, cy |-> py, ox |-> px, oy |-> py,
     turns |-> 0]

NoGeo == Geo("none", 0, 0, Box(0, 0, 0, 0), "LAB_ROTATE_NONE", NoCoord, NoCoord)

GeoInputs(dims, boxes, rotations, coords) ==
    {Geo("input", w, h, box, rotation, px, py) :
        w \in dims, h \in dims, box \in boxes, rotation \in rotations,
        px \in coords, py \in coords}

GeoCrop ==
    /\ geo.stage = "input"
    /\ LET a == adjust_for_tablet_area(geo.w, geo.h, geo.box, geo.px, geo.py)
       IN  geo' = [geo EXCEPT !.stage = "cropped", !.cx = a[1], !.cy = a[2],
                              !.ox = a[1], !.oy = a[2]]
    /\ UNCHANGED <<device, width_mm, height_mm, alloc, seat, x, y, handlers,
                   removed, frees, uaf, rc, button_map, pc, ev, emitted,
                   tip_pressed, reloaded, tracked>>

GeoRotate ==
    /\ geo.stage \in {"cropped", "rotated"}
    /\ geo.turns < MaxTurns
    /\ LET r == adjust_for_rotation(geo.rotation, geo.ox, geo.oy)
       IN  geo' = [geo EXCEPT !.stage = "rotated", !.ox = r[1], !.oy = r[2],
                              !.turns = geo.turns + 1]
    /\ UNCHANGED <<device, width_mm, height_mm, alloc, seat, x, y, handlers,
                   removed, frees, uaf, rc, button_map, pc, ev, emitted,
                   tip_pressed, reloaded, tracked>>

----------------------------------------------------------------------------
(* Spec: every device, every handler, the whole life of each record.        *)
(* Axis events report one coordinate from the corners of the surface under  *)
(* a configuration fixed at start; SpecAxis below varies the geometry.      *)

CornerCoords == {Num(0), Num(1)}

\* an area that crops the X axis, so that a move shows whose record it used
TabletBoxes == {Box(1, 0, 1, 0)}

TabletRotations == {"LAB_ROTATE_90"}

\* a tool with absolute motion and one without
TabletTools == {"PEN", "LENS"}

TabletEvents ==
    ProximityEvents(Devices, ToolTypes)
        \cup AxisEvents(Devices, TabletTools, {{"X"}, {"Y"}},
                        CornerCoords, Times)
        \cup TipEvents(Devices, TabletTools, Times)
        \cup ButtonEvents(Devices, TabletTools, Times)

Init == InitOver(TabletBoxes, TabletRotations, ButtonMaps) /\ geo = NoGeo

Next ==
    \/ DeviceAddedAny(Seats, Devices, PhysSizes)
    \/ DeliverAny(TabletEvents)
    \/ RunProximity
    \/ RunAxis
    \/ RunTip
    \/ RunButton
    \/ DestroyAny(Devices)
    \/ Return

Spec == Init /\ [][Next]_vars

----------------------------------------------------------------------------
(* SpecAxis: one device and a configuration that changes between events.    *)
(* Every tool type reports both axes from the corners; a pen, a mouse, a    *)
(* lens and an unknown tool report every position of the grid under masks   *)
(* holding neither, one or both of X and Y.                                 *)

AxisDevices == {1}

AxisTools == {"PEN", "MOUSE", "LENS", "UNKNOWN"}

AxisMasks == {{"PRESSURE"}, {"X"}, {"Y", "PRESSURE"}, {"X", "Y"}}

AxisSpecEvents ==
    AxisEvents(AxisDevices, ToolTypes, {{"X", "Y"}}, CornerCoords, {1})
        \cup AxisEvents(AxisDevices, AxisTools, AxisMasks, RawCoords, {1})

InitAxis == InitOver(Boxes, Rotations, {[b \in RawButtons |-> 0]}) /\ geo = NoGeo

NextAxis ==
    \/ DeviceAddedAny({1}, AxisDevices, PhysSizes)
    \/ DeliverAny(AxisSpecEvents)
    \/ RunAxis
    \/ ReconfigureAny(Boxes, Rotations)
    \/ DestroyAny(AxisDevices)
    \/ Return

SpecAxis == InitAxis /\ [][NextAxis]_vars

----------------------------------------------------------------------------
(* SpecGeom: adjust_for_tablet_area and adjust_for_rotation applied to      *)
(* every position of the grid, for every area and every physical size of    *)
(* the bounds, a physical width or height of zero included.                 *)

InitGeom ==
    /\ InitOver({Box(0, 0, 0, 0)}, {"LAB_ROTATE_NONE"}, {[b \in RawButtons |-> 0]})
    /\ geo \in GeoInputs(PhysDims, AllBoxes, Rotations, RawCoords)

NextGeom ==
    \/ GeoCrop
    \/ GeoRotate

SpecGeom == InitGeom /\ [][NextGeom]_vars

----------------------------------------------------------------------------
(* Properties *)

SignalKinds == {"axis", "proximity", "tip", "button"}

Incapable == {"MOUSE", "LENS"}

RLe(a, b) == a[1] * b[2] <= b[1] * a[2]

\* a finite value of the closed unit interval
InUnit(a) == a[2] > 0 /\ 0 <= a[1] /\ a[1] <= a[2]

\* crop with the current area, then rotate with the current rotation
Pipeline(d, px, py) ==
    LET a == adjust_for_tablet_area(width_mm[d], height_mm[d], rc.box, px, py)
    IN  adjust_for_rotation(rc.rotation, a[1], a[2])

\* rotate first, then crop: the order the source must not use
ReversePipeline(d, px, py) ==
    LET r == adjust_for_rotation(rc.rotation, px, py)
    IN  adjust_for_tablet_area(width_mm[d], height_mm[d], rc.box, r[1], r[2])

\* the handler of a capable axis event with X or Y in its mask is about to run
CapableAxisStep ==
    /\ pc = "dispatch"
    /\ pc' = "done"
    /\ ev.kind = "axis"
    /\ ev.tool \notin Incapable
    /\ ev.mask \cap {"X", "Y"} # {}

\* such a handler has just run
CapableAxisDone ==
    /\ pc = "done"
    /\ ev.kind = "axis"
    /\ ev.tool \notin Incapable
    /\ ev.mask \cap {"X", "Y"} # {}

MoveOf(d, p, t) == <<cursor_emulate_move_absolute(seat[d], d, p[1], p[2], t)>>

C1_Step ==
    CapableAxisStep =>
        LET d == ev.dev
        IN  /\ (ev.mask \cap {"X", "Y"} = {"Y"}) =>
                   /\ x'[d] = x[d]
                   /\ y'[d] = ev.y
                   /\ emitted' = MoveOf(d, Pipeline(d, x[d], ev.y), ev.time)
            /\ (ev.mask \cap {"X", "Y"} = {"X"}) =>
                   /\ y'[d] = y[d]
                   /\ x'[d] = ev.x
                   /\ emitted' = MoveOf(d, Pipeline(d, ev.x, y[d]), ev.time)

\* C1: an axis event from a capable tool whose mask holds only Y leaves the
\* stored X unchanged (only X: the stored Y), and its move is computed from the
\* unchanged stored coordinate together with the newly reported one.
C1_PartialUpdateKeepsOtherAxis == [][C1_Step]_vars

C1_Witness ==
    /\ CapableAxisDone
    /\ ev.mask \cap {"X", "Y"} = {"Y"}
    /\ x[ev.dev] # Num(0)
    /\ ev.x # x[ev.dev]
    /\ y[ev.dev] = ev.y
    /\ emitted # <<>>

\* C2 as stated: every move passed to the emulation lies in the unit square.
C2_OutputInUnitSquare ==
    (pc = "done" /\ ev.kind = "axis" /\ emitted # <<>>) =>
        InUnit(emitted[1].x) /\ InUnit(emitted[1].y)

\* the axis is not rescaled, or the raw coordinate v lies within the effective
\* area [off, off + size] of positive size on a surface of extent phys
AxisWithinArea(off, size, phys, v) ==
    \/ off + size > phys
    \/ /\ size > 0
       /\ RLe(Frac(off, phys), v)
       /\ RLe(v, Frac(off + size, phys))

StoredWithinArea(d) ==
    LET b == EffectiveBox(width_mm[d], height_mm[d], rc.box)
    IN  \/ AreaIsNoop(width_mm[d], height_mm[d], rc.box)
        \/ /\ AxisWithinArea(b.x, b.width, width_mm[d], x[d])
           /\ AxisWithinArea(b.y, b.height, height_mm[d], y[d])

\* C2 (amended): the move lies in the unit square whenever, on every axis the
\* cropping rescales, the stored raw coordinate lies within the effective
\* active area and that area has positive size.
C2_OutputInUnitSquareWithinArea ==
    (pc = "done" /\ ev.kind = "axis" /\ emitted # <<>>
        /\ StoredWithinArea(ev.dev)) =>
        InUnit(emitted[1].x) /\ InUnit(emitted[1].y)

C2_Witness ==
    /\ CapableAxisDone
    /\ emitted # <<>>
    /\ ~AreaIsNoop(width_mm[ev.dev], height_mm[ev.dev], rc.box)
    /\ rc.box.x > 0
    /\ rc.box.x + rc.box.width <= width_mm[ev.dev]
    /\ rc.box.width > 0
    /\ StoredWithinArea(ev.dev)
    /\ <<emitted[1].x, emitted[1].y>> # <<x[ev.dev], y[ev.dev]>>
    /\ rc.rotation = "LAB_ROTATE_90"

\* C3: once a device's destroy notification has fired, each of its five
\* listeners has been removed exactly once and its record freed exactly once
\* (and not before), and no axis, tip, button or proximity handler runs for it.
C3_DestroyRevokesEachOnce ==
    /\ \A d \in Devices :
           device[d] = "gone" =>
               /\ \A s \in Signals : removed[d][s] = 1
               /\ frees[d] = 1
    /\ \A d \in Devices :
           device[d] # "gone" =>
               /\ \A s \in Signals : removed[d][s] = 0
               /\ frees[d] = 0
    /\ (pc # "idle" /\ ev.kind \in SignalKinds) => device[ev.dev] = "present"

C3_Witness ==
    \E d \in Devices :
        /\ device[d] = "gone"
        /\ frees[d] = 1
        /\ pc = "done"
        /\ ev.kind \in SignalKinds
        /\ ev.dev # d

\* C4: a freed record has no listener linked, no statement touches the record
\* after free(tablet), and every handler that runs finds its record allocated.
C4_FreedAfterAllRevoked ==
    /\ \A d \in Devices : alloc[d] = "freed" => handlers[d] = {}
    /\ \A d \in Devices : alloc[d] = "live" => handlers[d] = Signals
    /\ ~uaf
    /\ (pc # "idle" /\ ev.kind \in SignalKinds) => alloc[ev.dev] = "live"

C4_Witness ==
    \E d \in Devices :
        /\ alloc[d] = "freed"
        /\ handlers[d] = {}
        /\ \A s \in Signals : removed[d][s] = 1
        /\ pc = "done"
        /\ ev.kind = "destroy"
        /\ ev.dev = d

\* C5: a tip event with the pen-tip code unmapped makes no emulation call; a
\* tip-down with it mapped makes exactly one button call, pressed, with the
\* mapped code; the tip-up matching it makes exactly one button call,
\* released, with the code the tip-down pressed.
C5_TipPressAndRelease ==
    (pc = "done" /\ ev.kind = "tip") =>
        LET m == button_map["BTN_TOOL_PEN"]
            d == ev.dev
        IN  /\ m = 0 => emitted = <<>>
            /\ (m # 0 /\ ev.state = "TIP_DOWN") =>
                   /\ Len(emitted) = 1
                   /\ emitted[1].op = "button"
                   /\ emitted[1].state = "PRESSED"
                   /\ emitted[1].button = m
            /\ (ev.state = "TIP_UP" /\ tip_pressed[d] # 0) =>
                   /\ Len(emitted) = 1
                   /\ emitted[1].op = "button"
                   /\ emitted[1].state = "RELEASED"
                   /\ emitted[1].button = tip_pressed[d]

C5_Witness ==
    /\ pc = "done"
    /\ ev.kind = "tip"
    /\ ev.state = "TIP_UP"
    /\ tip_pressed[ev.dev] # 0
    /\ emitted # <<>>

C6_Step ==
    (pc = "dispatch" /\ pc' = "done" /\ ev.kind = "button") =>
        LET m == button_map[ev.button]
            d == ev.dev
        IN  /\ m = 0 =>
                   /\ emitted' = <<>>
                   /\ UNCHANGED <<x, y, seat, alloc, handlers, removed, frees>>
            /\ m # 0 =>
                   emitted' = <<cursor_emulate_button(seat[d], m, ev.state, ev.time)>>

\* C6: a button event whose raw code is unmapped makes no emulation call and
\* changes no device state; otherwise it makes exactly one button call with
\* the mapped code, the event's own state, the device's seat and the event's
\* timestamp.
C6_ButtonForwardedVerbatim == [][C6_Step]_vars

C6_Witness ==
    /\ pc = "done"
    /\ ev.kind = "button"
    /\ ev.state = "RELEASED"
    /\ emitted # <<>>
    /\ button_map[ev.button] # button_map["BTN_TOOL_PEN"]
    /\ \E d \in Devices : alloc[d] = "live" /\ seat[d] # seat[ev.dev]

C7_Step ==
    (pc = "dispatch" /\ pc' = "done" /\ ev.kind = "axis" /\ ev.tool \in Incapable) =>
        /\ x' = x
        /\ y' = y
        /\ emitted' = <<>>

\* C7: an axis event from a mouse or lens tool changes no stored coordinate
\* and makes no emulation call, whatever its update mask.
C7_IncapableToolAxisIgnored == [][C7_Step]_vars

C7_Witness ==
    /\ pc = "done"
    /\ ev.kind = "axis"
    /\ ev.tool \in Incapable
    /\ ev.mask = {"X", "Y"}
    /\ ev.x # x[ev.dev]
    /\ ev.y # y[ev.dev]
    /\ x[ev.dev] # Num(0)
    /\ emitted = <<>>

\* C8: tool_supports_absolute_motion is false exactly for the mouse and lens
\* types and true for every other tag, known or not; an axis event with X or Y
\* in its mask moves the cursor exactly when its tool is neither.
C8_CapableExceptMouseAndLens ==
    (pc # "idle" /\ ev.kind = "axis") =>
        /\ tool_supports_absolute_motion(ev.tool) = (ev.tool \notin Incapable)
        /\ (pc = "done" /\ ev.mask \cap {"X", "Y"} # {}) =>
               ((emitted # <<>>) = (ev.tool \notin Incapable))

C8_Witness ==
    /\ pc = "done"
    /\ ev.kind = "axis"
    /\ ev.tool \in UnknownToolTypes
    /\ emitted # <<>>

C9_Step ==
    /\ CapableAxisStep =>
           LET d == ev.dev
           IN  /\ "X" \in ev.mask => x'[d] = ev.x
               /\ "Y" \in ev.mask => y'[d] = ev.y
               /\ Len(emitted') = 1
               /\ <<emitted'[1].x, emitted'[1].y>> = Pipeline(d, x'[d], y'[d])
    /\ rc' # rc =>
           /\ emitted' = <<>>
           /\ x' = x
           /\ y' = y

\* C9: the record keeps the raw position; every move is computed from the
\* configuration current at its axis event applied to that raw position, and a
\* configuration change alone makes no emulation call and changes no stored
\* coordinate.
C9_ConfigurationReadPerEvent == [][C9_Step]_vars

\* a move made from a stored X, after the configuration changed since the
\* previous axis event
C9_Witness ==
    /\ CapableAxisDone
    /\ reloaded
    /\ "X" \notin ev.mask
    /\ x[ev.dev] # Num(0)
    /\ emitted # <<>>
    /\ <<emitted[1].x, emitted[1].y>> # <<x[ev.dev], y[ev.dev]>>

\* C10: a capable axis event with X or Y in its mask makes exactly one move,
\* whose coordinates are the rotation of the cropping of the stored position.
C10_CropThenRotate ==
    CapableAxisDone =>
        /\ Len(emitted) = 1
        /\ emitted[1].op = "move_absolute"
        /\ <<emitted[1].x, emitted[1].y>> = Pipeline(ev.dev, x[ev.dev], y[ev.dev])

C10_Witness ==
    /\ CapableAxisDone
    /\ Len(emitted) = 1
    /\ <<emitted[1].x, emitted[1].y>> = Pipeline(ev.dev, x[ev.dev], y[ev.dev])
    /\ Pipeline(ev.dev, x[ev.dev], y[ev.dev])
           # ReversePipeline(ev.dev, x[ev.dev], y[ev.dev])

----------------------------------------------------------------------------
(* Properties of the geometry functions (SpecGeom) *)

UnitGrid == RawCoords \X RawCoords

\* the pair entering the rotation is a position of the unit square
RotatesUnitPair ==
    /\ geo.stage = "rotated"
    /\ <<geo.cx, geo.cy>> \in UnitGrid

\* C11: each rotation setting maps the unit square onto itself one-to-one (the
\* image of a position is in the square, no other position has that image,
\* and some position has it as its own image); four applications of the 90
\* degree setting, and two of the 180 degree setting, return the original
\* pair.
C11_RotationIsBijection ==
    RotatesUnitPair =>
        /\ geo.turns = 1 =>
               /\ <<geo.ox, geo.oy>> \in UnitGrid
               /\ \A q \in UnitGrid :
                      adjust_for_rotation(geo.rotation, q[1], q[2])
                          = <<geo.ox, geo.oy>> => q = <<geo.cx, geo.cy>>
               /\ \E q \in UnitGrid :
                      adjust_for_rotation(geo.rotation, q[1], q[2])
                          = <<geo.cx, geo.cy>>
        /\ geo.turns = 4 /\ geo.rotation = "LAB_ROTATE_90" =>
               <<geo.ox, geo.oy>> = <<geo.cx, geo.cy>>
        /\ geo.turns = 2 /\ geo.rotation = "LAB_ROTATE_180" =>
               <<geo.ox, geo.oy>> = <<geo.cx, geo.cy>>

\* a position off both diagonals, turned by 90 degrees four times: every
\* intermediate image differs from it, the fourth is the position again
C11_Witness ==
    /\ RotatesUnitPair
    /\ geo.rotation = "LAB_ROTATE_90"
    /\ geo.turns = 4
    /\ geo.cx # geo.cy
    /\ geo.cx # RSub(Num(1), geo.cy)
    /\ adjust_for_rotation(geo.rotation, geo.cx, geo.cy) # <<geo.cx, geo.cy>>
    /\ <<geo.ox, geo.oy>> = <<geo.cx, geo.cy>>

\* adjust_for_tablet_area has been applied to the raw pair
Cropped == geo.stage \in {"cropped", "rotated"}

\* C12: with an all-zero area (whatever the physical size), or with a physical
\* width or height of zero (whatever the area), adjust_for_tablet_area
\* returns the pair it was given.
C12_SentinelOrZeroSizeIsNoop ==
    /\ Cropped
    /\ \/ geo.box = Box(0, 0, 0, 0)
       \/ geo.w = 0
       \/ geo.h = 0
    => <<geo.cx, geo.cy>> = <<geo.px, geo.py>>

\* a configured area on a device that reports no physical width: the area
\* would fit the height, and the pair still comes back as given
C12_Witness ==
    /\ geo.stage = "cropped"
    /\ geo.w = 0
    /\ geo.h > 0
    /\ geo.box.y > 0
    /\ geo.box.y + geo.box.height <= geo.h
    /\ geo.py # Num(0)
    /\ <<geo.cx, geo.cy>> = <<geo.px, geo.py>>

\* the size an axis is scaled by: the configured one, or what is left of the
\* physical dimension after the offset when none is configured
EffSize(configured, offset, physical) ==
    IF configured = 0 THEN physical - offset ELSE configured

EffW == EffSize(geo.box.width, geo.box.x, geo.w)

EffH == EffSize(geo.box.height, geo.box.y, geo.h)

\* (raw - offset / physical) * physical / effective size
Rescaled(raw, offset, physical, eff) ==
    RDiv(RMul(RSub(raw, Frac(offset, physical)), Num(physical)), Num(eff))

\* the crop ran past its early return
CropApplied ==
    /\ Cropped
    /\ geo.box # Box(0, 0, 0, 0)
    /\ geo.w # 0
    /\ geo.h # 0

OverflowsX == geo.box.x + EffW > geo.w

OverflowsY == geo.box.y + EffH > geo.h

\* C13: an axis on which the area ends beyond the physical surface keeps its
\* coordinate, and the other axis is still rescaled when the area fits it.
C13_OverflowingAxisUntouched ==
    CropApplied =>
        /\ OverflowsX => geo.cx = geo.px
        /\ OverflowsY => geo.cy = geo.py
        /\ OverflowsX /\ ~OverflowsY =>
               geo.cy = Rescaled(geo.py, geo.box.y, geo.h, EffH)
        /\ OverflowsY /\ ~OverflowsX =>
               geo.cx = Rescaled(geo.px, geo.box.x, geo.w, EffW)

\* the area overflows the width and fits the height: X is kept, Y is moved
C13_Witness ==
    /\ CropApplied
    /\ OverflowsX
    /\ ~OverflowsY
    /\ EffH > 0
    /\ geo.px # Num(0)
    /\ geo.cx = geo.px
    /\ geo.cy # geo.py
    /\ geo.cy = Rescaled(geo.py, geo.box.y, geo.h, EffH)

\* the raw coordinate of a point `mm` millimetres along a physical dimension
RawAt(mm, physical) == Frac(mm, physical)

\* C14: on an axis the area fits, the crop maps the raw coordinate to
\* (raw - offset / physical) * physical / effective size, so that the raw
\* coordinate of the area's leading edge becomes 0 and that of its far edge 1.
C14_FittingAxisRescaled ==
    CropApplied =>
        /\ ~OverflowsX =>
               /\ geo.cx = Rescaled(geo.px, geo.box.x, geo.w, EffW)
               /\ geo.px = RawAt(geo.box.x, geo.w) => geo.cx = Num(0)
               /\ geo.px = RawAt(geo.box.x + EffW, geo.w) => geo.cx = Num(1)
        /\ ~OverflowsY =>
               /\ geo.cy = Rescaled(geo.py, geo.box.y, geo.h, EffH)
               /\ geo.py = RawAt(geo.box.y, geo.h) => geo.cy = Num(0)
               /\ geo.py = RawAt(geo.box.y + EffH, geo.h) => geo.cy = Num(1)

----------------------------------------------------------------------------
(* Properties of the handlers, continued (Spec, SpecAxis) *)

C15_Step ==
    /\ pc = "dispatch" /\ ev.kind = "proximity" =>
           /\ emitted' = <<>>
           /\ x' = x
           /\ y' = y
    /\ \A i \in DOMAIN emitted' :
           emitted'[i].op = "move_absolute" => ev'.kind = "axis"

\* C15: handling a proximity event, in or out and of any tool type, makes no
\* emulation call and changes no stored coordinate of any device; a move is
\* only ever made while an axis event is handled.
C15_ProximityEmitsNothing == [][C15_Step]_vars

\* a pen came into proximity of a live device that already has a position
C15_Witness ==
    /\ pc = "done"
    /\ ev.kind = "proximity"
    /\ ev.state = "PROXIMITY_IN"
    /\ ev.tool = "PEN"
    /\ "proximity" \in handlers[ev.dev]
    /\ alloc[ev.dev] = "live"
    /\ x[ev.dev] # Num(0)
    /\ emitted = <<>>

C16_Step ==
    /\ pc = "dispatch"
    /\ ev.kind = "axis"
    /\ ev.mask \cap {"X", "Y"} = {}
    => /\ emitted' = <<>>
       /\ x' = x
       /\ y' = y

\* C16: an axis event whose update mask holds neither X nor Y makes no move
\* and leaves the stored coordinates as they were, also for a capable tool
\* whose event carries x and y values.
C16_NoPositionAxisIgnored == [][C16_Step]_vars

\* a pen reported pressure only, with coordinates other than the stored ones
C16_Witness ==
    /\ pc = "done"
    /\ ev.kind = "axis"
    /\ ev.tool = "PEN"
    /\ ev.mask = {"PRESSURE"}
    /\ "axis" \in handlers[ev.dev]
    /\ alloc[ev.dev] = "live"
    /\ x[ev.dev] # Num(0)
    /\ ev.x # x[ev.dev]
    /\ ev.y # y[ev.dev]
    /\ emitted = <<>>

\* the raw code a tip or button event is resolved from
RawCodeOf(e) == IF e.kind = "tip" THEN "BTN_TOOL_PEN" ELSE e.button

C17_Step ==
    /\ pc = "dispatch"
    /\ ev.kind \in {"tip", "button"}
    /\ ev.kind \in handlers[ev.dev]
    /\ tablet_get_mapped_button(RawCodeOf(ev)) # 0
    => /\ Len(emitted') = 1
       /\ emitted'[1].op = "button"
       /\ emitted'[1].button = tablet_get_mapped_button(RawCodeOf(ev))

\* C17: a tip or button event whose code is mapped is forwarded, whatever the
\* tool's capability and whether or not a proximity or axis event came before
\* it on the device.
C17_TipAndButtonNeedNoTracking == [][C17_Step]_vars

\* the tip of a tool without absolute motion, on a device that has seen no
\* proximity and no axis event, was forwarded
C17_Witness ==
    /\ pc = "done"
    /\ ev.kind = "tip"
    /\ ev.tool \in Incapable
    /\ ~tracked[ev.dev]
    /\ Len(emitted) = 1
    /\ emitted[1].op = "button"

\* the record and the subscriptions of device o are what they were
RecordUntouched(o) ==
    /\ x'[o] = x[o]
    /\ y'[o] = y[o]
    /\ seat'[o] = seat[o]
    /\ alloc'[o] = alloc[o]
    /\ handlers'[o] = handlers[o]
    /\ removed'[o] = removed[o]
    /\ frees'[o] = frees[o]

C18_Step ==
    /\ pc = "dispatch" =>
           /\ \A o \in Devices \ {ev.dev} : RecordUntouched(o)
           /\ \A i \in DOMAIN emitted' :
                  emitted'[i].op = "move_absolute" =>
                      /\ emitted'[i].dev = ev.dev
                      /\ emitted'[i].seat = seat[ev.dev]
                      /\ <<emitted'[i].x, emitted'[i].y>>
                             = Pipeline(ev.dev, x'[ev.dev], y'[ev.dev])
           /\ /\ ev.kind = "axis"
              /\ ev.tool \notin Incapable
              /\ ev.mask \cap {"X", "Y"} # {}
              => Len(emitted') = 1
    /\ pc = "idle" /\ ev'.kind = "destroy" =>
           \A o \in Devices \ {ev'.dev} : RecordUntouched(o)

\* C18: with two devices, whatever the order of their events, handling an
\* event of one device or destroying it leaves the record and every
\* subscription of the other as they were; each move names the device that
\* reported it and is computed from that device's stored position, also after
\* the other device was destroyed.
C18_DevicesAreIndependent == [][C18_Step]_vars

\* a device with a position of its own moved the cursor after the other
\* device, used before and left at another position, was destroyed
C18_Witness ==
    /\ CapableAxisDone
    /\ Len(emitted) = 1
    /\ emitted[1].dev = ev.dev
    /\ <<emitted[1].x, emitted[1].y>> = Pipeline(ev.dev, x[ev.dev], y[ev.dev])
    /\ handlers[ev.dev] = Signals
    /\ \E o \in Devices \ {ev.dev} :
           /\ device[o] = "gone"
           /\ alloc[o] = "freed"
           /\ tracked[o]
           /\ <<x[o], y[o]>> # <<x[ev.dev], y[ev.dev]>>

----------------------------------------------------------------------------
(* The size adjust_for_tablet_area divides by (SpecGeom) *)

\* C19: for a non-negative area and a physical size with both dimensions
\* nonzero, an axis is only rescaled by a strictly positive effective size:
\* the result is finite, and the scaling does not reverse the axis.
C19_EffectiveSizePositive ==
    CropApplied =>
        LET b == EffectiveBox(geo.w, geo.h, geo.box)
        IN  /\ b.x + b.width <= geo.w =>
                /\ b.width > 0
                /\ ~IsNaN(geo.cx) /\ ~IsInf(geo.cx)
            /\ b.y + b.height <= geo.h =>
                /\ b.height > 0
                /\ ~IsNaN(geo.cy) /\ ~IsInf(geo.cy)

====
